---- MODULE Spec2Model ----
(***************************************************************************)
(* Model of webapp/app.py of TodosExtension: the task-line parser, the     *)
(* line rewriters (toggle, edit, add), the listing sort and the content    *)
(* store.  Text is a sequence of characters (one-character strings), so    *)
(* that splitting, joining, trimming, substring search and the regular     *)
(* expressions are computed as the Python code computes them.              *)
(***************************************************************************)
EXTENDS Integers, Sequences, FiniteSets, TLC

(***************************************************************************)
(* Characters and Python's string primitives                               *)
(***************************************************************************)

\* "\n" and "\r" are the line boundaries of str.splitlines() that the model's
\* alphabet holds.
LF == "\n"
CR == "\r"
\* The check-mark glyph U+2705 of COMPLETION_RE and extract_title: one character,
\* written by its code point because the module text is ASCII.
CheckMark == "U+2705"

\* str.isspace() / the regex class \s, on the model's alphabet.
IsSpace(c) == c \in {" ", LF, CR, "\t"}

\* the regex class \d
IsDigit(c) == c \in {"0", "1", "2", "3", "4", "5", "6", "7", "8", "9"}

\* The letters of the model's alphabet.
LowerLetters == {"a", "b", "c", "d", "e", "h", "i", "j", "k", "m", "n", "o", "p", "q", "r", "s", "t", "u", "w", "x", "z"}
UpperLetters == {"A", "B", "O", "P", "T", "W", "X"}

\* the regex class [A-Za-z0-9] of ID_RE, on the model's alphabet.
IsAlnum(c) == IsDigit(c) \/ c \in LowerLetters \/ c \in UpperLetters

\* str.lower() on one character of the model's alphabet.
LowerChar(c) == CASE c = "A" -> "a" [] c = "B" -> "b" [] c = "O" -> "o" [] c = "P" -> "p"
                  [] c = "T" -> "t" [] c = "W" -> "w" [] c = "X" -> "x" [] OTHER -> c

\* ord(c): the code point, by which Python orders strings.
Ord(c) == CASE c = "\t" -> 9 [] c = LF -> 10 [] c = CR -> 13 [] c = " " -> 32 [] c = "#" -> 35
            [] c = "+" -> 43 [] c = "-" -> 45 [] c = "0" -> 48 [] c = "1" -> 49 [] c = "2" -> 50
            [] c = "3" -> 51 [] c = "4" -> 52 [] c = "5" -> 53 [] c = "6" -> 54 [] c = "7" -> 55
            [] c = "8" -> 56 [] c = "9" -> 57 [] c = ":" -> 58 [] c = "@" -> 64 [] c = "A" -> 65
            [] c = "B" -> 66 [] c = "O" -> 79 [] c = "P" -> 80 [] c = "T" -> 84 [] c = "W" -> 87
            [] c = "X" -> 88 [] c = "[" -> 91 [] c = "]" -> 93 [] c = "^" -> 94 [] c = "a" -> 97
            [] c = "b" -> 98 [] c = "c" -> 99 [] c = "d" -> 100 [] c = "e" -> 101 [] c = "h" -> 104
            [] c = "i" -> 105 [] c = "j" -> 106 [] c = "k" -> 107 [] c = "m" -> 109 [] c = "n" -> 110
            [] c = "o" -> 111 [] c = "p" -> 112 [] c = "q" -> 113 [] c = "r" -> 114 [] c = "s" -> 115
            [] c = "t" -> 116 [] c = "u" -> 117 [] c = "w" -> 119 [] c = "x" -> 120 [] c = "z" -> 122
            [] c = CheckMark -> 9989

\* str.lower()
Lower(s) == [i \in 1..Len(s) |-> LowerChar(s[i])]

\* s[from:] with a 1-based first position.
Drop(s, from) == SubSeq(s, from, Len(s))

\* s.startswith(p) at 1-based position i: whether p occurs in s at i.
MatchAt(s, p, i) == /\ i >= 1
                    /\ i + Len(p) - 1 <= Len(s)
                    /\ \A k \in 1..Len(p) : s[i + k - 1] = p[k]

\* s.startswith(p)
StartsWith(s, p) == MatchAt(s, p, 1)

\* s.find(p) as a 1-based position, 0 when p does not occur (Python: -1).
Find(s, p) ==
    IF p = <<>> THEN 1
    ELSE LET hits == {i \in 1..Len(s) : s[i] = p[1] /\ MatchAt(s, p, i)}
         IN  IF hits = {} THEN 0 ELSE CHOOSE i \in hits : \A j \in hits : i <= j

\* p in s
Contains(s, p) == Find(s, p) # 0

\* s.replace(old, new, 1): the first occurrence only.
ReplaceFirst(s, old, new) == LET i == Find(s, old)
                             IN  IF i = 0 THEN s
                                 ELSE SubSeq(s, 1, i - 1) \o new \o Drop(s, i + Len(old))

\* s.lstrip()
LStrip(s) == LET ns == {i \in 1..Len(s) : ~IsSpace(s[i])}
             IN  IF ns = {} THEN <<>>
                 ELSE Drop(s, CHOOSE i \in ns : \A j \in ns : i <= j)

\* s.strip()
Strip(s) == LET ns == {i \in 1..Len(s) : ~IsSpace(s[i])}
            IN  IF ns = {} THEN <<>>
                ELSE SubSeq(s, CHOOSE i \in ns : \A j \in 1..(i - 1) : IsSpace(s[j]),
                               CHOOSE i \in ns : \A j \in (i + 1)..Len(s) : IsSpace(s[j]))

\* str.splitlines(): lines end at "\n", "\r" or "\r\n"; no empty last line
\* after a final line boundary.
RECURSIVE SplitLines(_)
SplitLines(s) ==
    IF s = <<>> THEN <<>>
    ELSE LET brk == {i \in 1..Len(s) : s[i] \in {LF, CR}}
         IN  IF brk = {} THEN <<s>>
             ELSE LET b == CHOOSE i \in brk : \A j \in brk : i <= j
                      n == IF s[b] = CR /\ b < Len(s) /\ s[b + 1] = LF THEN b + 2 ELSE b + 1
                  IN  <<SubSeq(s, 1, b - 1)>> \o SplitLines(Drop(s, n))

\* '\n'.join(lines)
RECURSIVE Join(_)
Join(lines) == IF lines = <<>> THEN <<>>
               ELSE IF Len(lines) = 1 THEN lines[1]
               ELSE lines[1] \o <<LF>> \o Join(Tail(lines))

(***************************************************************************)
(* Optional values (Python's None) and the regular expressions             *)
(***************************************************************************)

\* None, and a captured value.
None == [has |-> FALSE, val |-> <<>>]
Some(v) == [has |-> TRUE, val |-> v]

\* Python truthiness of an optional string: None and "" are false.
Truthy(o) == o.has /\ o.val # <<>>

\* The smallest member of a non-empty set of positions.
MinOf(S) == CHOOSE i \in S : \A j \in S : i <= j

\* The end of the longest run from position i of characters that are not
\* white space ([^\s]+); i - 1 when the run is empty.
NonSpaceRunEnd(s, i) == LET stop == {j \in i..Len(s) : IsSpace(s[j])}
                        IN  IF stop = {} THEN Len(s) ELSE MinOf(stop) - 1

\* The same for [A-Za-z0-9]+.
AlnumRunEnd(s, i) == LET stop == {j \in i..Len(s) : ~IsAlnum(s[j])}
                     IN  IF stop = {} THEN Len(s) ELSE MinOf(stop) - 1

\* The same for [^\]]+.
NonBracketRunEnd(s, i) == LET stop == {j \in i..Len(s) : s[j] = "]"}
                          IN  IF stop = {} THEN Len(s) ELSE MinOf(stop) - 1

\* \d{4}-\d{2}-\d{2} at position i.
DateShapeAt(s, i) == /\ i >= 1
                     /\ i + 9 <= Len(s)
                     /\ \A k \in {0, 1, 2, 3, 5, 6, 8, 9} : IsDigit(s[i + k])
                     /\ s[i + 4] = "-"
                     /\ s[i + 7] = "-"

\* capture_token(PROJECT_RE, text): PROJECT_RE = \+([^\s]+), first match, group 1
\* stripped.
CaptureProject(text) ==
    LET hits == {i \in 1..Len(text) : text[i] = "+" /\ NonSpaceRunEnd(text, i + 1) >= i + 1}
    IN  IF hits = {} THEN None
        ELSE LET i == MinOf(hits)
             IN  Some(Strip(SubSeq(text, i + 1, NonSpaceRunEnd(text, i + 1))))

\* capture_token(CONTEXT_RE, text): CONTEXT_RE = @([^\s]+)
CaptureContext(text) ==
    LET hits == {i \in 1..Len(text) : text[i] = "@" /\ NonSpaceRunEnd(text, i + 1) >= i + 1}
    IN  IF hits = {} THEN None
        ELSE LET i == MinOf(hits)
             IN  Some(Strip(SubSeq(text, i + 1, NonSpaceRunEnd(text, i + 1))))

\* capture_token(DUE_RE, text): DUE_RE = due:(\d{4}-\d{2}-\d{2})
CaptureDue(text) ==
    LET hits == {i \in 1..Len(text) : MatchAt(text, <<"d", "u", "e", ":">>, i) /\ DateShapeAt(text, i + 4)}
    IN  IF hits = {} THEN None
        ELSE Some(Strip(SubSeq(text, MinOf(hits) + 4, MinOf(hits) + 13)))

\* capture_token(ID_RE, text): ID_RE = \^([A-Za-z0-9]+)
CaptureId(text) ==
    LET hits == {i \in 1..Len(text) : text[i] = "^" /\ AlnumRunEnd(text, i + 1) >= i + 1}
    IN  IF hits = {} THEN None
        ELSE LET i == MinOf(hits)
             IN  Some(Strip(SubSeq(text, i + 1, AlnumRunEnd(text, i + 1))))

\* capture_token(LINK_RE, text): LINK_RE = \[\[([^\]]+)\]\].  The greedy run of
\* characters other than "]" must be non-empty and be followed by "]]"; a
\* shorter run is followed by a character that is not "]", so backtracking
\* finds no other match at the same start.
CaptureLink(text) ==
    LET hits == {i \in 1..Len(text) :
                    /\ MatchAt(text, <<"[", "[">>, i)
                    /\ NonBracketRunEnd(text, i + 2) >= i + 2
                    /\ MatchAt(text, <<"]", "]">>, NonBracketRunEnd(text, i + 2) + 1)}
    IN  IF hits = {} THEN None
        ELSE LET i == MinOf(hits)
             IN  Some(Strip(SubSeq(text, i + 2, NonBracketRunEnd(text, i + 2))))

\* A match of COMPLETION_RE = \s U+2705 \s \d{4}-\d{2}-\d{2} at position i.
CompletionAt(s, i) == /\ i + 12 <= Len(s)
                      /\ IsSpace(s[i])
                      /\ s[i + 1] = CheckMark
                      /\ IsSpace(s[i + 2])
                      /\ DateShapeAt(s, i + 3)

\* COMPLETION_RE.sub("", s): every match, found left to right without overlap,
\* is removed.
RECURSIVE CompletionSub(_)
CompletionSub(s) ==
    LET hits == {i \in 1..Len(s) : CompletionAt(s, i)}
    IN  IF hits = {} THEN s
        ELSE SubSeq(s, 1, MinOf(hits) - 1) \o CompletionSub(Drop(s, MinOf(hits) + 13))

(***************************************************************************)
(* Dates: datetime.strptime(s, "%Y-%m-%d").date() and its ISO text         *)
(***************************************************************************)

\* The value of a decimal digit character.
DigitVal(c) == CASE c = "0" -> 0 [] c = "1" -> 1 [] c = "2" -> 2 [] c = "3" -> 3
                 [] c = "4" -> 4 [] c = "5" -> 5 [] c = "6" -> 6 [] c = "7" -> 7
                 [] c = "8" -> 8 [] c = "9" -> 9

\* The decimal digit character of a value 0..9.
DigitChar(n) == CASE n = 0 -> "0" [] n = 1 -> "1" [] n = 2 -> "2" [] n = 3 -> "3"
                  [] n = 4 -> "4" [] n = 5 -> "5" [] n = 6 -> "6" [] n = 7 -> "7"
                  [] n = 8 -> "8" [] n = 9 -> "9"

\* Days of a month of the proleptic Gregorian calendar.
DaysInMonth(y, m) ==
    IF m \in {4, 6, 9, 11} THEN 30
    ELSE IF m = 2 THEN (IF (y % 4 = 0 /\ y % 100 # 0) \/ y % 400 = 0 THEN 29 ELSE 28)
    ELSE 31

\* strptime on a string of the shape DUE_RE captured: the date <<y, m, d>>, or
\* None where strptime raises ValueError (year 0, month or day out of range).
ParseDate(s) ==
    LET y == 1000 * DigitVal(s[1]) + 100 * DigitVal(s[2]) + 10 * DigitVal(s[3]) + DigitVal(s[4])
        m == 10 * DigitVal(s[6]) + DigitVal(s[7])
        d == 10 * DigitVal(s[9]) + DigitVal(s[10])
    IN  IF y >= 1 /\ m >= 1 /\ m <= 12 /\ d >= 1 /\ d <= DaysInMonth(y, m)
        THEN Some(<<y, m, d>>) ELSE None

\* date.isoformat(): YYYY-MM-DD, the value an edit form is filled with.
IsoFormat(dt) ==
    LET y == dt[1]
        m == dt[2]
        d == dt[3]
    IN  <<DigitChar(y \div 1000), DigitChar((y \div 100) % 10), DigitChar((y \div 10) % 10),
          DigitChar(y % 10), "-", DigitChar(m \div 10), DigitChar(m % 10), "-",
          DigitChar(d \div 10), DigitChar(d % 10)>>

(***************************************************************************)
(* LineParser: extract_title and parse_line                                *)
(***************************************************************************)

\* The cut markers of extract_title, in the order of the source.
TitleMarkers ==
    << <<" ", "+">>, <<" ", "@">>, <<" ", "d", "u", "e", ":">>, <<" ", "[", "[">>,
       <<" ", CheckMark>>, <<" ", "^">>, <<"+">>, <<"@">>, <<"d", "u", "e", ":">>,
       <<"[", "[">>, <<CheckMark>>, <<"^">> >>

\* extract_title(rest): rest cut at the earliest marker and stripped; the whole
\* stripped rest when that is empty.
extract_title(rest) ==
    LET found == {Find(rest, TitleMarkers[k]) : k \in 1..Len(TitleMarkers)} \ {0}
        cut == IF found = {} THEN Len(rest) + 1 ELSE MinOf(found)
        cleaned == Strip(SubSeq(rest, 1, cut - 1))
    IN  IF cleaned # <<>> THEN cleaned ELSE Strip(rest)

\* The three checkbox prefixes.
CheckedLower == <<"-", " ", "[", "x", "]">>
CheckedUpper == <<"-", " ", "[", "X", "]">>
Unchecked == <<"-", " ", "[", " ", "]">>

\* Whether parse_line returns a record for the line (not None).
IsTask(line) == LET trimmed == LStrip(line)
                IN  \/ StartsWith(trimmed, CheckedLower)
                    \/ StartsWith(trimmed, CheckedUpper)
                    \/ StartsWith(trimmed, Unchecked)

\* parse_line(line, line_index, section) for a line with a checkbox prefix.
parse_line(line, line_index, section) ==
    LET trimmed == LStrip(line)
        done == StartsWith(trimmed, CheckedLower) \/ StartsWith(trimmed, CheckedUpper)
        rest == Strip(Drop(trimmed, 6))
        due_str == CaptureDue(rest)
    IN  [line_index |-> line_index,
         marker |-> CaptureId(rest),
         title |-> extract_title(rest),
         section |-> section,
         project |-> CaptureProject(rest),
         context |-> CaptureContext(rest),
         due |-> IF Truthy(due_str) THEN ParseDate(due_str.val) ELSE None,
         reference |-> CaptureLink(rest),
         done |-> done,
         raw_line |-> line]

(***************************************************************************)
(* DocumentIndex: load_todos                                               *)
(***************************************************************************)

\* s.lstrip('#')
LStripHashes(s) == LET ns == {i \in 1..Len(s) : s[i] # "#"}
                   IN  IF ns = {} THEN <<>> ELSE Drop(s, MinOf(ns))

\* The section label before any header line.
NoSection == <<"O", "h", "n", "e", " ", "A", "b", "s", "c", "h", "n", "i", "t", "t">>

\* The loop of load_todos over lines[k..], k the 1-based position of the line
\* with the 0-based line_index k - 1: a header line sets the section, every other
\* line with a checkbox prefix gives a record.
RECURSIVE LoadFrom(_, _, _)
LoadFrom(lines, k, current_section) ==
    IF k > Len(lines) THEN <<>>
    ELSE LET line == lines[k]
             trimmed == Strip(line)
         IN  IF StartsWith(trimmed, <<"#", "#", "#">>)
             THEN LoadFrom(lines, k + 1, Strip(LStripHashes(trimmed)))
             ELSE IF IsTask(line)
             THEN <<parse_line(line, k - 1, current_section)>> \o LoadFrom(lines, k + 1, current_section)
             ELSE LoadFrom(lines, k + 1, current_section)

\* load_todos() on the content read_content() returned.
load_todos(content) == IF content = <<>> THEN <<>> ELSE LoadFrom(SplitLines(content), 1, NoSection)

(***************************************************************************)
(* LineRewriter: rewrite_line, the rebuilt line of edit, the line of add   *)
(***************************************************************************)

\* rewrite_line without the removal of the completion marker (a variant).
rewrite_line_keeps_marker(line, done) ==
    IF done
    THEN ReplaceFirst(ReplaceFirst(line, Unchecked, CheckedLower), CheckedUpper, CheckedLower)
    ELSE ReplaceFirst(ReplaceFirst(line, CheckedLower, Unchecked), CheckedUpper, Unchecked)

\* rewrite_line(line, done)
rewrite_line(line, done) ==
    LET updated == IF done
                   THEN ReplaceFirst(ReplaceFirst(line, Unchecked, CheckedLower), CheckedUpper, CheckedLower)
                   ELSE ReplaceFirst(ReplaceFirst(line, CheckedLower, Unchecked), CheckedUpper, Unchecked)
    IN  CompletionSub(updated)

\* The toggle route's reading of the current state: a substring check.
is_done(line) == Contains(line, CheckedLower) \/ Contains(line, CheckedUpper)

\* The line edit() builds from the submitted form and the original line.  The
\* form's title is a string; project, context, due and reference are strings
\* where "" also stands for a missing field (both are false in Python).
RebuildLine(original_line, form) ==
    LET marker == CaptureId(original_line)
    IN  (IF form.done THEN <<"-", " ", "[", "x", "]", " ">> ELSE <<"-", " ", "[", " ", "]", " ">>)
        \o Strip(form.title)
        \o (IF Strip(form.project) # <<>> THEN <<" ", "+">> \o Strip(form.project) ELSE <<>>)
        \o (IF Strip(form.context) # <<>> THEN <<" ", "@">> \o Strip(form.context) ELSE <<>>)
        \o (IF Strip(form.due) # <<>> THEN <<" ", "d", "u", "e", ":">> \o Strip(form.due) ELSE <<>>)
        \o (IF Strip(form.reference) # <<>> THEN <<" ", "[", "[">> \o Strip(form.reference) \o <<"]", "]">> ELSE <<>>)
        \o (IF Truthy(marker) THEN <<" ", "^">> \o marker.val ELSE <<>>)

\* new_line of add_todo: f"- [ ] {title} due:{today}"
NewLine(title, today) == <<"-", " ", "[", " ", "]", " ">> \o title \o <<" ", "d", "u", "e", ":">> \o today

(***************************************************************************)
(* Sorter: the sort keys and list.sort(key=...)                            *)
(***************************************************************************)

\* Python's comparison of two ints, two dates <<y, m, d>> and two strings, as
\* -1 (less), 0 (equal), 1 (greater).
CmpInt(a, b) == IF a < b THEN -1 ELSE IF a > b THEN 1 ELSE 0

CmpDate(a, b) == IF a[1] # b[1] THEN CmpInt(a[1], b[1])
                 ELSE IF a[2] # b[2] THEN CmpInt(a[2], b[2])
                 ELSE CmpInt(a[3], b[3])

CmpStr(a, b) ==
    LET diff == {i \in 1..Len(a) : i > Len(b) \/ a[i] # b[i]}
    IN  IF diff = {} THEN (IF Len(a) < Len(b) THEN -1 ELSE 0)
        ELSE IF MinOf(diff) > Len(b) THEN 1
        ELSE CmpInt(Ord(a[MinOf(diff)]), Ord(b[MinOf(diff)]))

\* The comparison of two tuples from the comparisons of their components: the
\* first that differs decides.
FirstNonZero(cs) == LET nz == {i \in 1..Len(cs) : cs[i] # 0}
                    IN  IF nz = {} THEN 0 ELSE cs[MinOf(nz)]

\* sort_key_topic(todo)
sort_key_topic(todo) ==
    <<IF Truthy(todo.project) THEN 0 ELSE 1,
      IF Truthy(todo.project) THEN Lower(todo.project.val) ELSE <<>>,
      Lower(todo.section),
      Lower(todo.title),
      IF Truthy(todo.context) THEN 0 ELSE 1,
      IF Truthy(todo.context) THEN Lower(todo.context.val) ELSE <<>>>>

\* sort_key_location(todo)
sort_key_location(todo) ==
    <<IF Truthy(todo.context) THEN 0 ELSE 1,
      IF Truthy(todo.context) THEN Lower(todo.context.val) ELSE <<>>,
      Lower(todo.section),
      Lower(todo.title),
      IF Truthy(todo.project) THEN 0 ELSE 1,
      IF Truthy(todo.project) THEN Lower(todo.project.val) ELSE <<>>>>

\* datetime.min.date()
MinDate == <<1, 1, 1>>

\* sort_key_date with the tasks that have a date first (a variant).
sort_key_date_dated_first(todo) ==
    IF todo.due.has THEN <<0, todo.due.val, sort_key_topic(todo)>>
    ELSE <<1, MinDate, sort_key_topic(todo)>>

\* sort_key_date(todo)
sort_key_date(todo) ==
    IF ~todo.due.has THEN <<0, MinDate, sort_key_topic(todo)>>
    ELSE <<1, todo.due.val, sort_key_topic(todo)>>

\* The comparison of two keys of sort_key_topic or sort_key_location.
CmpTextKey(a, b) ==
    FirstNonZero(<<CmpInt(a[1], b[1]), CmpStr(a[2], b[2]), CmpStr(a[3], b[3]),
                   CmpStr(a[4], b[4]), CmpInt(a[5], b[5]), CmpStr(a[6], b[6])>>)

\* The comparison of two keys of sort_key_date.
CmpDateKey(a, b) ==
    FirstNonZero(<<CmpInt(a[1], b[1]), CmpDate(a[2], b[2]), CmpTextKey(a[3], b[3])>>)

\* The comparison of the keys of two records under a sort mode.
CmpByMode(mode, x, y) ==
    IF mode = "location" THEN CmpTextKey(sort_key_location(x), sort_key_location(y))
    ELSE IF mode = "date" THEN CmpDateKey(sort_key_date(x), sort_key_date(y))
    ELSE CmpTextKey(sort_key_topic(x), sort_key_topic(y))

\* list.sort(key=...), a stable sort: each record in turn goes before the first
\* record already placed whose key is greater, behind the others.
RECURSIVE SortBy(_, _)
SortBy(mode, todos) ==
    IF todos = <<>> THEN <<>>
    ELSE LET placed == SortBy(mode, SubSeq(todos, 1, Len(todos) - 1))
             x == todos[Len(todos)]
             greater == {i \in 1..Len(placed) : CmpByMode(mode, x, placed[i]) < 0}
             at == IF greater = {} THEN Len(placed) + 1 ELSE MinOf(greater)
         IN  SubSeq(placed, 1, at - 1) \o <<x>> \o Drop(placed, at)

\* The todos index() keeps: done tasks only with show_done, and with
\* show_due_only no task whose due date is after today.
RECURSIVE FilterTodos(_, _, _, _)
FilterTodos(todos, show_done, show_due_only, today) ==
    IF todos = <<>> THEN <<>>
    ELSE LET todo == todos[1]
             rest == FilterTodos(Tail(todos), show_done, show_due_only, today)
         IN  IF ~show_done /\ todo.done THEN rest
             ELSE IF show_due_only /\ todo.due.has /\ CmpDate(todo.due.val, today) > 0 THEN rest
             ELSE <<todo>> \o rest

\* The section index() gives a record for display under a sort mode.
DisplaySection(mode, todo) ==
    IF mode = "topic"
    THEN <<"T", "h", "e", "m", "a", ":", " ">>
            \o (IF Truthy(todo.project) THEN todo.project.val
                ELSE <<"O", "h", "n", "e", " ", "P", "r", "o", "j", "e", "k", "t">>)
    ELSE IF mode = "location"
    THEN <<"O", "r", "t", ":", " ">>
            \o (IF Truthy(todo.context) THEN todo.context.val
                ELSE <<"O", "h", "n", "e", " ", "O", "r", "t">>)
    ELSE IF mode = "date" THEN <<>>
    ELSE todo.section

(***************************************************************************)
(* TaskMutationService: what each mutating function writes                 *)
(***************************************************************************)

\* '\n'.join(lines) + '\n', the text every mutation hands to write_content.
Document(lines) == Join(lines) \o <<LF>>

\* toggle_todo without its range check (a variant): out of range, the lines are
\* written back as they are.
toggle_todo_unchecked(content, line_index, done) ==
    LET lines == SplitLines(content)
    IN  IF line_index < Len(lines)
        THEN Some(Document([lines EXCEPT ![line_index + 1] = rewrite_line(@, done)]))
        ELSE Some(Document(lines))

\* toggle_todo(line_index, done) on the content it read: the text it writes, or
\* None when line_index is out of range and nothing is written.
toggle_todo(content, line_index, done) ==
    LET lines == SplitLines(content)
    IN  IF line_index < Len(lines)
        THEN Some(Document([lines EXCEPT ![line_index + 1] = rewrite_line(@, done)]))
        ELSE None

\* insert_index without the break of the loop (a variant): the last separator.
InsertIndexLast(lines) ==
    LET seps == {k \in 1..Len(lines) : Strip(lines[k]) = <<"-", "-", "-">>}
    IN  IF seps = {} THEN Len(lines) ELSE (CHOOSE k \in seps : \A j \in seps : k >= j) - 1

\* The insert_index of add_todo (0-based): the first line whose stripped text is
\* "---", or len(lines).
InsertIndex(lines) ==
    LET seps == {k \in 1..Len(lines) : Strip(lines[k]) = <<"-", "-", "-">>}
    IN  IF seps = {} THEN Len(lines) ELSE MinOf(seps) - 1

\* add_todo(title) on the content it read: the text it writes.
add_todo(content, title, today) ==
    LET lines == SplitLines(content)
        k == InsertIndex(lines)
    IN  Document(SubSeq(lines, 1, k) \o <<NewLine(title, today)>> \o Drop(lines, k + 1))

\* The POST branch of edit(line_index) on the content it read: the text it
\* writes; None when line_index is out of range (redirect) or the form has no
\* title (title.strip() raises on None and the request ends before the write).
edit_post(content, line_index, form) ==
    LET lines == SplitLines(content)
    IN  IF line_index >= Len(lines) \/ ~form.has_title THEN None
        ELSE Some(Document([lines EXCEPT ![line_index + 1] = RebuildLine(@, form)]))

\* The GET branch of edit(line_index) followed by a POST of the form as it was
\* rendered: every field holds the value parse_line extracted (a date as its ISO
\* text, a missing value as the empty string).
PrefilledForm(item) ==
    [has_title |-> TRUE,
     title |-> item.title,
     project |-> item.project.val,
     context |-> item.context.val,
     due |-> IF item.due.has THEN IsoFormat(item.due.val) ELSE <<>>,
     reference |-> item.reference.val,
     done |-> item.done]

(***************************************************************************)
(* State                                                                   *)
(***************************************************************************)

VARIABLES
    webdav,     \* USE_WEBDAV: the HTTP backend (TRUE) or the local file (FALSE)
    stored,     \* the text of the document in the backend ("" when absent)
    settings,   \* the settings JSON: show_done, show_due_only, sort_mode
    listing,    \* the records the last index() request rendered
    last,       \* the request handled last: its inputs, what it read and wrote
    prev,       \* the request handled before it
    nops,       \* the number of requests handled so far
    pc,         \* concurrent requests: each request's position in its handler
    loc,        \* concurrent requests: each request's operation and locals
    order       \* concurrent requests: the requests in the order their writes completed

vars == <<webdav, stored, settings, listing, last, prev, nops, pc, loc, order>>

\* read_content(): the whole document; "" when the HTTP request fails (ok is
\* FALSE, only with the HTTP backend) or the file does not exist.
read_content(ok) == IF webdav /\ ~ok THEN <<>> ELSE stored

\* write_content(content) when the request succeeds or the backend is the file;
\* a failed HTTP PUT is logged and dropped.
write_content(content, ok) == IF webdav /\ ~ok THEN stored ELSE content

\* The form of a request that submitted no form.
NoForm == [has_title |-> FALSE, title |-> <<>>, project |-> <<>>, context |-> <<>>,
           due |-> <<>>, reference |-> <<>>, done |-> FALSE]

\* No request handled yet.
NoRequest == [op |-> "none", index |-> 0, form |-> NoForm, unchanged |-> FALSE,
              title |-> <<>>, today |-> <<>>, read1 |-> <<>>, read |-> <<>>,
              out |-> None, wrote |-> FALSE, before |-> <<>>]

(***************************************************************************)
(* Request handlers, one request at a time                                 *)
(***************************************************************************)

\* The most requests one behaviour handles.
MaxOps == 2

\* What is the same after every sequential request.
Handle(request) ==
    /\ last' = request
    /\ prev' = last
    /\ nops' = nops + 1
    /\ UNCHANGED <<webdav, settings, listing, pc, loc, order>>

\* GET /toggle/<line_index>: the route reads the document and takes the current
\* state of the line from a substring check, then toggle_todo reads the document
\* again, rewrites the line and writes the document.  r1, r2: whether the two
\* reads succeed, w: whether the write does.
Toggle(line_index, r1, r2, w) ==
    /\ nops < MaxOps
    /\ LET content == read_content(r1)
           lines == SplitLines(content)
           in_range == line_index < Len(lines)
           content2 == IF in_range THEN read_content(r2) ELSE content
           out == IF in_range
                  THEN toggle_todo(content2, line_index, ~is_done(lines[line_index + 1]))
                  ELSE None
       IN  /\ stored' = IF out.has THEN write_content(out.val, w) ELSE stored
           /\ Handle([op |-> "toggle", index |-> line_index, form |-> NoForm,
                      unchanged |-> FALSE, title |-> <<>>, today |-> <<>>,
                      read1 |-> content, read |-> content2, out |-> out,
                      wrote |-> out.has /\ (w \/ ~webdav), before |-> stored])

\* POST /edit/<line_index> with a submitted form.
Edit(line_index, form, r, w) ==
    /\ nops < MaxOps
    /\ LET content == read_content(r)
           out == edit_post(content, line_index, form)
       IN  /\ stored' = IF out.has THEN write_content(out.val, w) ELSE stored
           /\ Handle([op |-> "edit", index |-> line_index, form |-> form,
                      unchanged |-> FALSE, title |-> <<>>, today |-> <<>>,
                      read1 |-> content, read |-> content, out |-> out,
                      wrote |-> out.has /\ (w \/ ~webdav), before |-> stored])

\* GET /edit/<line_index>, which renders the form from parse_line of the line,
\* then POST of that form with no field changed.  A line that is no task has no
\* form (the GET redirects).
EditUnchanged(line_index) ==
    /\ nops < MaxOps
    /\ LET content == read_content(TRUE)
           lines == SplitLines(content)
       IN  /\ line_index < Len(lines)
           /\ IsTask(lines[line_index + 1])
           /\ LET form == PrefilledForm(parse_line(lines[line_index + 1], line_index, <<>>))
                  out == edit_post(content, line_index, form)
              IN  /\ stored' = write_content(out.val, TRUE)
                  /\ Handle([op |-> "edit", index |-> line_index, form |-> form,
                             unchanged |-> TRUE, title |-> <<>>, today |-> <<>>,
                             read1 |-> content, read |-> content, out |-> out,
                             wrote |-> TRUE, before |-> stored])

\* POST /add with a non-empty title (an empty title is not passed to add_todo).
Add(title, today, r, w) ==
    /\ nops < MaxOps
    /\ title # <<>>
    /\ LET content == read_content(r)
           out == Some(add_todo(content, title, today))
       IN  /\ stored' = write_content(out.val, w)
           /\ Handle([op |-> "add", index |-> 0, form |-> NoForm,
                      unchanged |-> FALSE, title |-> title, today |-> today,
                      read1 |-> content, read |-> content, out |-> out,
                      wrote |-> w \/ ~webdav, before |-> stored])

\* The document texts a behaviour of Spec may start from: no document; four
\* lines with two separator lines (the first padded) and no final line break; a
\* header and a task with "\r\n" line ends.
Docs ==
    { <<>>,
      Join(<<CheckedLower \o <<" ", "a", " ", "^", "m", "1">>,
             <<" ", "-", "-", "-", " ">>,
             Unchecked \o <<" ", "b">>,
             <<"-", "-", "-">>>>),
      <<"#", "#", "#", " ", "W", CR, LF>> \o CheckedUpper \o <<" ", "b", CR, LF>> }

\* The line indices requests name: 0 .. MaxIndex.
MaxIndex == 3
Indices == 0..MaxIndex

\* The forms POST /edit submits in Spec: padded fields; a title holding a line
\* break; a request without a title field.
Forms ==
    { [NoForm EXCEPT !.has_title = TRUE, !.title = <<" ", "c", "a", "t", " ">>, !.context = <<"c">>],
      [NoForm EXCEPT !.has_title = TRUE, !.title = <<"a", LF, "b">>],
      NoForm }

\* The titles POST /add submits.
Titles == { <<"b">>, <<"a", LF, "b">> }

\* datetime.now() as "%Y-%m-%d".
Today == <<"2", "0", "2", "4", "-", "0", "1", "-", "0", "2">>

\* A query parameter that is not given, a settings key that is not saved
\* (request.args.get and settings.get then return None or the default).
Absent == "None"

\* load_settings() when no settings were saved: {}.
NoSettings == [show_done |-> Absent, show_due_only |-> Absent, sort_mode |-> Absent]

\* No listing rendered, no settings saved, no concurrent request.
Idle ==
    /\ settings = NoSettings
    /\ listing = <<>>
    /\ last = NoRequest
    /\ prev = NoRequest
    /\ nops = 0
    /\ pc = <<>>
    /\ loc = <<>>
    /\ order = <<>>

Init ==
    /\ webdav \in BOOLEAN
    /\ stored \in Docs
    /\ Idle

\* Whether a backend request can succeed: only an HTTP request fails soft.
Oks == IF webdav THEN BOOLEAN ELSE {TRUE}

\* The outcomes of the requests a handler makes: a request that is not made
\* (toggle_todo's read after an empty first read, a write after an empty read of
\* toggle or edit) has no outcome to choose.
After(made) == IF made THEN Oks ELSE {TRUE}

Next ==
    \/ \E i \in Indices : \E r1 \in Oks : \E r2 \in After(r1) : \E w \in After(r1 /\ r2) :
          Toggle(i, r1, r2, w)
    \/ \E i \in Indices, form \in Forms : \E r \in Oks : \E w \in After(r) :
          Edit(i, form, r, w)
    \/ \E i \in Indices : EditUnchanged(i)
    \/ \E title \in Titles : \E r, w \in Oks : Add(title, Today, r, w)

\* Sequential mutation requests against one document.
Spec == Init /\ [][Next]_vars

(***************************************************************************)
(* The listing request (SpecSort)                                          *)
(***************************************************************************)

\* settings.get(key, default) and the value a given query parameter overrides
\* it with.
Effective(given, saved, default) ==
    IF given # Absent THEN given ELSE IF saved # Absent THEN saved ELSE default

\* GET / with its query parameters (Absent when not given): the settings are
\* updated and saved, the todos loaded, filtered, sorted and given their display
\* section.
Index(show_done_val, show_due_only_val, sort_mode_val, today, r) ==
    LET show_done == Effective(show_done_val, settings.show_done, "0") = "1"
        show_due_only == Effective(show_due_only_val, settings.show_due_only, "0") = "1"
        sort_mode == Effective(sort_mode_val, settings.sort_mode, "topic")
    IN  \E todos \in {load_todos(read_content(r))} :
        \E filtered_todos \in {FilterTodos(todos, show_done, show_due_only, today)} :
        \E sorted \in {SortBy(sort_mode, filtered_todos)} :
            /\ settings' = [show_done |-> IF show_done_val # Absent THEN show_done_val
                                          ELSE settings.show_done,
                            show_due_only |-> IF show_due_only_val # Absent THEN show_due_only_val
                                              ELSE settings.show_due_only,
                            sort_mode |-> IF sort_mode_val # Absent THEN sort_mode_val
                                          ELSE settings.sort_mode]
            /\ listing' = [k \in 1..Len(sorted) |->
                              [sorted[k] EXCEPT !.section = DisplaySection(sort_mode, sorted[k])]]
            /\ UNCHANGED <<webdav, stored, last, prev, nops, pc, loc, order>>

\* The most lines of a document of SpecSort.
MaxSortLines == 3

\* The second due date of SpecSort, after Today: 2024-02-29.
LeapDay == <<"2", "0", "2", "4", "-", "0", "2", "-", "2", "9">>

\* The lines the documents of SpecSort are made of: a header; tasks without and
\* with a due date, with and without project and context, done and not done,
\* whose texts differ in case.
SortLines ==
    { <<"#", "#", "#", " ", "W">>,
      Unchecked \o <<" ", "a">>,
      Unchecked \o <<" ", "A", " ", "@", "c">>,
      Unchecked \o <<" ", "a", " ", "+", "B", " ", "d", "u", "e", ":">> \o LeapDay,
      Unchecked \o <<" ", "a", " ", "+", "B", " ", "d", "u", "e", ":">> \o Today,
      CheckedLower \o <<" ", "B", " ", "+", "a", " ", "d", "u", "e", ":">> \o Today }

\* The documents of SpecSort: up to MaxSortLines of these lines, in any order,
\* with repetition.
SortDocs ==
    UNION { {Document(lines) : lines \in [1..n -> SortLines]} : n \in 1..MaxSortLines }

\* The query strings of GET /: no parameter; the sort mode alone; the sort mode
\* with a filter switched on or off.
Queries ==
    { [show_done |-> Absent, show_due_only |-> Absent, sort_mode |-> Absent],
      [show_done |-> Absent, show_due_only |-> Absent, sort_mode |-> "date"],
      [show_done |-> "1", show_due_only |-> Absent, sort_mode |-> "date"],
      [show_done |-> "0", show_due_only |-> "1", sort_mode |-> "topic"],
      [show_done |-> Absent, show_due_only |-> "0", sort_mode |-> "location"] }

InitSort ==
    /\ webdav = FALSE
    /\ stored \in SortDocs
    /\ Idle

NextSort ==
    \E q \in Queries : \E r \in Oks :
        Index(q.show_done, q.show_due_only, q.sort_mode, ParseDate(Today).val, r)

\* Listing requests against one document.
SpecSort == InitSort /\ [][NextSort]_vars

(***************************************************************************)
(* Claims about the mutation requests (Spec)                               *)
(***************************************************************************)

\* Every line of a sequence followed by a line break.
RECURSIVE Terminated(_)
Terminated(lines) == IF lines = <<>> THEN <<>>
                     ELSE lines[1] \o <<LF>> \o Terminated(Tail(lines))

\* The last request read the stored document (no read failed soft) and its write
\* reached the backend.
LastReadAndWrote == last.wrote /\ last.read1 = last.before /\ last.read = last.before

\* The positions of the separator lines of a line sequence.
Separators(lines) == {k \in 1..Len(lines) : Strip(lines[k]) = <<"-", "-", "-">>}

\* C1: a mutation whose read and write succeed changes the line sequence at one
\* position only: toggle(i) and edit(i, fields) with i in range keep the number
\* of lines and every line j # i, and add(title) inserts exactly one line among
\* the lines that were there, which keep their content and order.
C1_OneLineChanged ==
    LET old == SplitLines(last.before)
        new == SplitLines(stored)
    IN  /\ (last.op \in {"toggle", "edit"} /\ LastReadAndWrote) =>
              /\ Len(new) = Len(old)
              /\ \A j \in 1..Len(old) : j # last.index + 1 => new[j] = old[j]
        /\ (last.op = "add" /\ LastReadAndWrote) =>
              /\ Len(new) = Len(old) + 1
              /\ \E k \in 1..Len(new) : SubSeq(new, 1, k - 1) \o Drop(new, k + 1) = old

\* C4: add(title) puts the new unchecked line immediately before the first line
\* whose trimmed text is "---", the separator directly following it, and at the
\* end of the document only when there is no such line.
C4_AddBeforeFirstSeparator ==
    (last.op = "add" /\ LastReadAndWrote) =>
        LET old == SplitLines(last.before)
            seps == Separators(old)
            new_line == <<"-", " ", "[", " ", "]", " ">> \o last.title
                            \o <<" ", "d", "u", "e", ":">> \o last.today
        IN  IF seps = {}
            THEN stored = Terminated(old) \o new_line \o <<LF>>
            ELSE \E k \in seps :
                    /\ \A j \in 1..(k - 1) : j \notin seps
                    /\ stored = Terminated(SubSeq(old, 1, k - 1)) \o new_line \o <<LF>>
                                    \o old[k] \o <<LF>> \o Terminated(Drop(old, k + 1))

\* C4's case: an add, with its read and write succeeding, into a document that
\* has two separator lines, the first of them not the first line.
C4_Witness ==
    /\ last.op = "add" /\ LastReadAndWrote
    /\ Cardinality(Separators(SplitLines(last.before))) >= 2
    /\ 1 \notin Separators(SplitLines(last.before))

\* C5: toggle and edit with a line index out of the range of the document just
\* read (the empty document included) write nothing and leave the stored
\* document as it was.
C5_OutOfRangeNoOp ==
    (/\ last.op \in {"toggle", "edit"}
     /\ \/ last.index >= Len(SplitLines(last.read1))
        \/ last.index >= Len(SplitLines(last.read)))
    => (~last.out.has /\ ~last.wrote /\ stored = last.before)

\* C5's case: an edit out of range of the empty document it read, then a toggle
\* out of range of a stored document that has lines.
C5_Witness ==
    /\ prev.op = "edit" /\ prev.form.has_title /\ prev.read = <<>>
    /\ last.op = "toggle" /\ last.read1 = stored /\ stored # <<>>
    /\ last.index >= Len(SplitLines(stored))

\* C9: add(title) removes no line of the stored document: every line stored
\* before the call is stored after it, also when the read inside the call failed
\* soft and the write succeeded.
C9_AddKeepsEveryLine ==
    (last.op = "add" /\ last.wrote) =>
        LET old == SplitLines(last.before)
            new == SplitLines(stored)
        IN  \A j \in 1..Len(old) : \E k \in 1..Len(new) : new[k] = old[j]

(***************************************************************************)
(* The requests on one line (SpecLine)                                     *)
(***************************************************************************)

\* The pieces the lines of SpecLine are made of.
TitleA == <<" ", "a">>
TokProject == <<" ", "+", "p">>
TokContext == <<" ", "@", "c">>
TokDue == <<" ", "d", "u", "e", ":">> \o Today
TokLink == <<" ", "[", "[", "a", " ", "b", "]", "]">>
TokMarker == <<" ", "^", "m", "1">>
TokCompletion == <<" ", CheckMark, " ">> \o Today

\* Task lines that follow the line grammar: a checkbox, then each of title,
\* project, context, due date, reference and marker present or absent.
GrammarLines ==
    { box \o title \o project \o context \o due \o link \o marker :
        box \in {Unchecked, CheckedLower},
        title \in {<<>>, TitleA},
        project \in {<<>>, TokProject},
        context \in {<<>>, TokContext},
        due \in {<<>>, TokDue},
        link \in {<<>>, TokLink},
        marker \in {<<>>, TokMarker} }

\* What follows the checkbox in the other task lines: a second checkbox of each
\* state inside the text; a completion marker; a completion marker that another
\* one splits; a completion marker between "-" and " [x]"; a due token that is
\* no calendar date; a marker before a project that holds "^k"; upper-case
\* text and a project holding "@" and "^"; text directly after the checkbox.
OtherBodies ==
    { TitleA \o <<" ">> \o CheckedLower \o <<" ", "b">>,
      TitleA \o <<" ">> \o CheckedUpper,
      TitleA \o <<" ">> \o Unchecked,
      TitleA \o TokCompletion \o TokMarker,
      TitleA \o <<" ", CheckMark, " ", "2", "0", "2", "4", "-", "0">> \o TokCompletion \o <<"1", "-", "0", "2">>,
      TitleA \o <<" ", "-">> \o TokCompletion \o <<" ", "[", "x", "]">>,
      TitleA \o <<" ", "d", "u", "e", ":", "2", "0", "2", "4", "-", "1", "3", "-", "0", "1">> \o TokMarker,
      TitleA \o TokMarker \o <<" ", "+", "p", "^", "k">>,
      <<" ", "A", " ", "+", "B", "@", "c", "^", "k">>,
      <<"a", "@", "b", " ", "[", "[", "x", "]", "]">> \o TokContext }

\* The lines a behaviour of SpecLine may start from: the grammar lines, the other
\* bodies after each checkbox, two indented task lines and two lines that are
\* no task.
Lines ==
    GrammarLines
    \cup { box \o body : box \in {Unchecked, CheckedLower, CheckedUpper}, body \in OtherBodies }
    \cup { <<" ", " ">> \o CheckedUpper \o TitleA \o TokMarker,
           <<" ">> \o Unchecked \o TitleA \o TokProject,
           <<"a">> \o TokMarker,
           <<"-", " ", "[", "x", "]">> }

\* The forms POST /edit submits in SpecLine: padded plain fields; every field
\* filled and a title that holds "^z".
LineForms ==
    { [NoForm EXCEPT !.has_title = TRUE, !.title = <<" ", "c", "a", "t", " ">>, !.context = <<"c">>],
      [NoForm EXCEPT !.has_title = TRUE, !.title = <<"a", " ", "^", "z">>, !.project = <<"p">>,
                     !.due = Today, !.reference = <<"a", " ", "b">>, !.done = TRUE] }

InitLine ==
    /\ webdav = FALSE
    /\ stored \in {Document(<<line>>) : line \in Lines}
    /\ Idle

NextLine ==
    \/ Toggle(0, TRUE, TRUE, TRUE)
    \/ \E form \in LineForms : Edit(0, form, TRUE, TRUE)
    \/ EditUnchanged(0)

\* Toggle and edit requests against a document of one line.
SpecLine == InitLine /\ [][NextLine]_vars

(***************************************************************************)
(* Claims about the requests on one line (SpecLine)                        *)
(***************************************************************************)

\* The line the last request named, as it was stored before the request and as
\* it is stored now.
LineBefore == SplitLines(last.before)[last.index + 1]
LineNow == SplitLines(stored)[last.index + 1]

\* The records load_todos yields for the line with the given index.
RecordsAt(content, line_index) ==
    LET items == load_todos(content)
    IN  {items[k] : k \in {j \in 1..Len(items) : items[j].line_index = line_index}}

\* The number of checked checkboxes, of either spelling, in a line.
CountChecked(line) ==
    Cardinality({i \in 1..Len(line) : MatchAt(line, CheckedLower, i) \/ MatchAt(line, CheckedUpper, i)})

\* The last two requests toggled line 0 and both wrote, the first of them on a
\* task line that was done.
ToggledTwice ==
    /\ prev.op = "toggle" /\ prev.wrote
    /\ last.op = "toggle" /\ last.wrote
    /\ IsTask(SplitLines(prev.before)[1])
    /\ parse_line(SplitLines(prev.before)[1], 0, <<>>).done

\* C2: an edit neither loses nor alters the identifier: whatever the original
\* task line and the submitted fields, parse_line extracts from the rebuilt line
\* the marker it extracts from the original line, and none where there was none.
C2_EditKeepsMarker ==
    (last.op = "edit" /\ last.wrote /\ IsTask(LineBefore)) =>
        /\ IsTask(LineNow)
        /\ parse_line(LineNow, 0, <<>>).marker = parse_line(LineBefore, 0, <<>>).marker

\* C3 as stated: toggling a done task line twice (done, not done, done) gives a
\* line equal to the original without its completion marker, whichever of
\* "- [x]" and "- [X]" the original is spelled with.
C3_ToggleTwiceRestores ==
    (/\ ToggledTwice
     /\ ~parse_line(LineBefore, 0, <<>>).done
     /\ parse_line(LineNow, 0, <<>>).done)
    => LineNow = CompletionSub(SplitLines(prev.before)[1])

\* C3 as amended: when the original without its completion markers holds one
\* checked checkbox only (its prefix) and no completion marker, toggling the done
\* task twice goes done, not done, done and gives that line if the original is
\* spelled "- [x]", and that line respelled "- [x]" if it is spelled "- [X]".
C3_ToggleTwiceCanonical ==
    LET original == SplitLines(prev.before)[1]
        minus == CompletionSub(original)
    IN  (/\ ToggledTwice
         /\ CountChecked(minus) = 1
         /\ CompletionSub(minus) = minus)
        => /\ ~parse_line(LineBefore, 0, <<>>).done
           /\ parse_line(LineNow, 0, <<>>).done
           /\ StartsWith(LStrip(original), CheckedLower) => LineNow = minus
           /\ StartsWith(LStrip(original), CheckedUpper) =>
                 /\ LineNow # minus
                 /\ LineNow = SubSeq(minus, 1, Find(minus, CheckedUpper) - 1) \o CheckedLower
                                 \o Drop(minus, Find(minus, CheckedUpper) + 5)

\* C3's case: two toggles of a done task line spelled "- [x]" that carries a
\* completion marker and a marker.
C3_Witness ==
    /\ ToggledTwice
    /\ StartsWith(SplitLines(prev.before)[1], CheckedLower)
    /\ CountChecked(CompletionSub(SplitLines(prev.before)[1])) = 1
    /\ CompletionSub(SplitLines(prev.before)[1]) # SplitLines(prev.before)[1]
    /\ Truthy(CaptureId(LineNow))
    /\ LineNow = CompletionSub(SplitLines(prev.before)[1])

\* C7: an edit that submits the done, title, project, context, due and reference
\* values parse_line extracted from a task line gives a line from which
\* parse_line extracts the same done, title, project, context, due, reference
\* and marker.
C7_RoundTrip ==
    (last.op = "edit" /\ last.unchanged) =>
        LET a == parse_line(LineBefore, 0, <<>>)
            b == parse_line(LineNow, 0, <<>>)
        IN  /\ IsTask(LineNow)
            /\ b.done = a.done
            /\ b.title = a.title
            /\ b.project = a.project
            /\ b.context = a.context
            /\ b.due = a.due
            /\ b.reference = a.reference
            /\ b.marker = a.marker

\* C10: with no other request in between, toggle(i) on a task line at an index
\* in range gives a line whose record, as load_todos yields it, has done negated.
C10_ToggleNegatesDone ==
    (last.op = "toggle" /\ last.wrote /\ IsTask(LineBefore)) =>
        \A a \in RecordsAt(last.before, last.index) :
            /\ RecordsAt(stored, last.index) # {}
            /\ \A b \in RecordsAt(stored, last.index) : b.done = ~a.done

(***************************************************************************)
(* Claims about the listing (SpecSort)                                     *)
(***************************************************************************)

\* The sort mode and the filters of the listing last rendered, from the settings
\* the request saved.
ListedMode == Effective(Absent, settings.sort_mode, "topic")
ListedDone == Effective(Absent, settings.show_done, "0") = "1"
ListedDueOnly == Effective(Absent, settings.show_due_only, "0") = "1"

\* The records of the stored document, and the one a listed item was copied
\* from (the listed copy has the display section in place of its section).
StoredTodos == load_todos(stored)
Original(todos, item) == CHOOSE t \in {todos[k] : k \in 1..Len(todos)} : t.line_index = item.line_index

\* The order the date mode is described by, as -1 (a before b), 1 (b before a)
\* or 0 (an exact tie): no due date before a due date, the earlier date first,
\* then project present before absent, project text, section text, title text,
\* context present before absent, context text, text without regard to case.
DateOrder(a, b) ==
    FirstNonZero(<<
        IF ~a.due.has /\ b.due.has THEN -1 ELSE IF a.due.has /\ ~b.due.has THEN 1 ELSE 0,
        IF a.due.has /\ b.due.has THEN CmpDate(a.due.val, b.due.val) ELSE 0,
        IF a.project.has /\ ~b.project.has THEN -1 ELSE IF ~a.project.has /\ b.project.has THEN 1 ELSE 0,
        CmpStr(Lower(a.project.val), Lower(b.project.val)),
        CmpStr(Lower(a.section), Lower(b.section)),
        CmpStr(Lower(a.title), Lower(b.title)),
        IF a.context.has /\ ~b.context.has THEN -1 ELSE IF ~a.context.has /\ b.context.has THEN 1 ELSE 0,
        CmpStr(Lower(a.context.val), Lower(b.context.val)) >>)

\* The line indices of the records the filters keep.
KeptIndices(todos) ==
    {todos[k].line_index : k \in {k \in 1..Len(todos) :
        /\ ListedDone \/ ~todos[k].done
        /\ ~ListedDueOnly \/ ~todos[k].due.has
              \/ CmpDate(todos[k].due.val, ParseDate(Today).val) <= 0}}

\* C8: a listing sorted in date mode holds every record the filters keep once,
\* and of any two listed records the earlier one is never after the later one
\* in the date order (no due date before a due date, ascending date, then the
\* topic chain without regard to case); on an exact tie the earlier one is the
\* one earlier in the document.
C8_DateOrder ==
    ListedMode = "date" =>
        \E todos \in {StoredTodos} :
            /\ {listing[k].line_index : k \in 1..Len(listing)} = KeptIndices(todos)
            /\ Len(listing) = Cardinality(KeptIndices(todos))
            /\ \A i, j \in 1..Len(listing) :
                  i < j =>
                     LET a == Original(todos, listing[i])
                         b == Original(todos, listing[j])
                     IN  /\ DateOrder(a, b) <= 0
                         /\ DateOrder(a, b) = 0 => a.line_index < b.line_index

\* A date-mode listing of three records: one without a due date, then two with
\* the same due date whose project texts are in order only without regard to
\* case and that stand in the document in the opposite order.
C8_Witness ==
    /\ ListedMode = "date"
    /\ Len(listing) = 3
    /\ ~listing[1].due.has
    /\ listing[2].due.has
    /\ listing[3].due.has
    /\ listing[2].due.val = listing[3].due.val
    /\ listing[2].project.val = <<"a">>
    /\ listing[3].project.val = <<"B">>
    /\ listing[1].line_index > listing[3].line_index
    /\ listing[3].line_index < listing[2].line_index

(***************************************************************************)
(* Concurrent mutation requests (SpecConc)                                 *)
(***************************************************************************)

\* The number of requests in flight at once.
NumRequests == 2
Requests == 1..NumRequests

\* The requests of SpecConc: a toggle of the first line, and two adds whose
\* new lines differ in length.
ConcRequests ==
    { [op |-> "toggle", index |-> 0, title |-> <<>>],
      [op |-> "add", index |-> 0, title |-> <<"b">>],
      [op |-> "add", index |-> 0, title |-> <<"c", "c", "c">>] }

\* The documents of SpecConc: no document, and a task before a separator.
ConcDocs == { <<>>, Document(<<Unchecked \o <<" ", "a">>, <<"-", "-", "-">>>>) }

\* A request as it arrives: a toggle starts in the route, an add in add_todo.
Arrived(req) == [op |-> req.op, index |-> req.index, title |-> req.title, done |-> FALSE,
                 before |-> <<>>, read |-> <<>>, out |-> None, racing |-> FALSE]

\* Whether no request has begun to write.
NoWriteBegun == order = <<>> /\ \A q \in Requests : pc[q] # "flush"

\* toggle(line_index) up to its call of toggle_todo: the route reads the
\* document and takes the target state from the line; out of range it ends.
ToggleRoute(p, r) ==
    /\ pc[p] = "route"
    /\ LET lines == SplitLines(read_content(r))
           in_range == loc[p].index < Len(lines)
       IN  /\ loc' = [loc EXCEPT ![p].done = in_range /\ ~is_done(lines[loc[p].index + 1])]
           /\ pc' = [pc EXCEPT ![p] = IF in_range THEN "read" ELSE "done"]
    /\ UNCHANGED <<webdav, stored, settings, listing, last, prev, nops, order>>

\* toggle_todo or add_todo up to its call of write_content: the document is
\* read and the new text built; toggle_todo ends here when out of range.
ReadForWrite(p, r) ==
    /\ pc[p] = "read"
    /\ LET content == read_content(r)
           out == IF loc[p].op = "toggle" THEN toggle_todo(content, loc[p].index, loc[p].done)
                  ELSE Some(add_todo(content, loc[p].title, Today))
       IN  /\ loc' = [loc EXCEPT ![p].before = stored, ![p].read = content, ![p].out = out,
                                 ![p].racing = NoWriteBegun]
           /\ pc' = [pc EXCEPT ![p] = IF out.has THEN "write" ELSE "done"]
    /\ UNCHANGED <<webdav, stored, settings, listing, last, prev, nops, order>>

\* write_content with the HTTP backend: one PUT replaces the document, or fails
\* and is dropped.
Put(p, w) ==
    /\ webdav
    /\ pc[p] = "write"
    /\ stored' = write_content(loc[p].out.val, w)
    /\ order' = IF w THEN Append(order, p) ELSE order
    /\ pc' = [pc EXCEPT ![p] = "done"]
    /\ UNCHANGED <<webdav, settings, listing, last, prev, nops, loc>>

\* write_content with the file backend, open(TODO_PATH, 'w'): the file is
\* truncated; f.write() fills the buffer of the file object.
Open(p) ==
    /\ ~webdav
    /\ pc[p] = "write"
    /\ stored' = <<>>
    /\ pc' = [pc EXCEPT ![p] = "flush"]
    /\ UNCHANGED <<webdav, settings, listing, last, prev, nops, loc, order>>

\* The end of the with block: the buffer is written from the start of the file
\* over what the file holds by then; anything beyond the written text stays.
Close(p) ==
    /\ pc[p] = "flush"
    /\ stored' = loc[p].out.val \o Drop(stored, Len(loc[p].out.val) + 1)
    /\ order' = Append(order, p)
    /\ pc' = [pc EXCEPT ![p] = "done"]
    /\ UNCHANGED <<webdav, settings, listing, last, prev, nops, loc>>

InitConc ==
    /\ webdav \in BOOLEAN
    /\ stored \in ConcDocs
    /\ settings = NoSettings
    /\ listing = <<>>
    /\ last = NoRequest
    /\ prev = NoRequest
    /\ nops = 0
    /\ \E reqs \in [Requests -> ConcRequests] :
          /\ loc = [p \in Requests |-> Arrived(reqs[p])]
          /\ pc = [p \in Requests |-> IF reqs[p].op = "toggle" THEN "route" ELSE "read"]
    /\ order = <<>>

NextConc ==
    \E p \in Requests :
        \/ \E r \in Oks : ToggleRoute(p, r)
        \/ \E r \in Oks : ReadForWrite(p, r)
        \/ \E w \in Oks : Put(p, w)
        \/ Open(p)
        \/ Close(p)

\* Mutation requests whose steps interleave.
SpecConc == InitConc /\ [][NextConc]_vars

(***************************************************************************)
(* Claims about concurrent requests (SpecConc)                             *)
(***************************************************************************)

\* Every request has read the document, and read it before any write began.
AllRaced == \A p \in Requests : loc[p].racing

\* The texts the requests hand to write_content.
NewTexts == {loc[p].out.val : p \in {q \in Requests : loc[q].out.has}}

\* C6: when all requests read before any of them writes, the document is at
\* every moment the old text or the whole text one of them wrote, and once all
\* are done and some write completed, it is the text of the write that
\* completed last (built from what that request read) and not the different
\* text of a write that completed earlier.
C6_LastWriteWins ==
    AllRaced =>
        /\ stored \in {loc[p].before : p \in Requests} \cup NewTexts
        /\ (order # <<>> /\ \A p \in Requests : pc[p] = "done") =>
              /\ stored = loc[order[Len(order)]].out.val
              /\ \A k \in 1..(Len(order) - 1) :
                    loc[order[k]].out # loc[order[Len(order)]].out
                        => stored # loc[order[k]].out.val

====
